---------------------------- MODULE Spec2Model ----------------------------
(***************************************************************************)
(* A model of hits/models.py (turkle): the Hit, HitBatch and HitTemplate   *)
(* Django models.                                                          *)
(*                                                                         *)
(* Text is a sequence of one-character strings, so that str.replace and    *)
(* re.findall are modelled by what they do to the characters.  A dict is a *)
(* function; the iteration order of a dict is not fixed by the language,   *)
(* so every loop over dict.keys() takes a nondeterministically chosen      *)
(* order.  The module holds four specifications, one per part of the file: *)
(*   SpecRender    Hit.generate_form                                       *)
(*   SpecImport    HitBatch.create_hits_from_csv / _parse_csv              *)
(*   SpecHits      Hit.save, HitBatch.to_csv, HitTemplate.to_csv           *)
(*   SpecTemplate  HitTemplate.save                                        *)
(***************************************************************************)
EXTENDS Integers, Sequences, FiniteSets, TLC

VARIABLES
    form,              \* SpecRender: hit_batch.hit_template.form
    input_csv_fields,  \* SpecRender: Hit.input_csv_fields of the rendered Hit
    rendered,          \* SpecRender: value returned by generate_form, <<>> before the call
    csv_fh,            \* SpecImport: the rows unicodecsv.reader yields from the handle
    created,           \* SpecImport: input_csv_fields of the Hits saved, in creation order
    import_result,     \* SpecImport: "none", "done" or "StopIteration"
    source_rows,       \* SpecImport: for each created Hit, the index of its row in csv_fh
    hit_table,         \* SpecHits: the persisted Hit rows, index = id
    last_post,         \* SpecHits: the last submission (hit id, answer map as posted)
    export,            \* SpecHits: what a to_csv call on the table as it is ended in
                       \*           and wrote to its handle; NoExport before the call
    tform,             \* SpecTemplate: HitTemplate.form of the instance in memory
    tfieldnames,       \* SpecTemplate: HitTemplate.fieldnames of the instance in memory
    tsaved             \* SpecTemplate: the persisted row, or NoRow

renderVars   == <<form, input_csv_fields, rendered>>
importVars   == <<csv_fh, created, import_result, source_rows>>
hitVars      == <<hit_table, last_post, export>>
templateVars == <<tform, tfieldnames, tsaved>>
vars == <<renderVars, importVars, hitVars, templateVars>>

-----------------------------------------------------------------------------
(* Text helpers *)

\* The concatenation of a sequence of texts.
RECURSIVE Concat(_)
Concat(ss) == IF ss = <<>> THEN <<>> ELSE Head(ss) \o Concat(Tail(ss))

StartsWith(s, p) == Len(s) >= Len(p) /\ SubSeq(s, 1, Len(p)) = p

\* Python str.replace(old, new) for a non-empty old: every non-overlapping
\* occurrence, left to right; the text put in is not scanned again.
RECURSIVE Replace(_, _, _)
Replace(s, old, new) ==
    IF Len(s) < Len(old) THEN s
    ELSE IF StartsWith(s, old)
         THEN new \o Replace(SubSeq(s, Len(old) + 1, Len(s)), old, new)
         ELSE <<Head(s)>> \o Replace(Tail(s), old, new)

\* All orders in which the keys of a dict can be iterated.
Orders(S) == {o \in [1..Cardinality(S) -> S] : \A i, j \in DOMAIN o : i # j => o[i] # o[j]}

-----------------------------------------------------------------------------
(* Hit.generate_form *)

\* r'${' + field + r'}'
Token(field) == <<"$", "{">> \o field \o <<"}">>

\* The loop of generate_form over the keys taken in the order given.
RECURSIVE SubstituteFields(_, _, _)
SubstituteFields(result, fields, order) ==
    IF order = <<>> THEN result
    ELSE SubstituteFields(Replace(result, Token(Head(order)), fields[Head(order)]),
                          fields, Tail(order))

BorderOpen == "<div style=\" width:100%; border:2px solid black; margin-top:10px\">"
MarginOpen == "<div style=\"margin:10px\">"
DivClose   == "</div>"

\* border % (margin % result); each tag is one element of the text.
Wrap(result) == <<BorderOpen, MarginOpen>> \o result \o <<DivClose, DivClose>>

GenerateFormResult(template, fields, order) ==
    Wrap(SubstituteFields(template, fields, order))

\* Inputs of the rendering: a template is assembled from up to MaxPieces pieces.
MaxPieces == 3

TemplatePieces ==
    { <<"$">>, <<"{", "b", "}">>, <<"$", "{", "a", "}">>, <<"$", "{", "b", "}">>,
      <<"$", "{", "c", "}">>, <<"H", "i">> }
Templates == {Concat(ps) : ps \in UNION {[1..n -> TemplatePieces] : n \in 0..MaxPieces}}
FieldNames == { <<"a">>, <<"b">> }
FieldValues == { <<>>, <<"X">>, <<"$", "{", "b", "}">>, <<"{", "b", "}">> }
FieldMaps == UNION {[K -> FieldValues] : K \in SUBSET FieldNames}

GenerateForm ==
    /\ rendered = <<>>
    /\ \E order \in Orders(DOMAIN input_csv_fields) :
          rendered' = GenerateFormResult(form, input_csv_fields, order)
    /\ UNCHANGED <<form, input_csv_fields, importVars, hitVars, templateVars>>

-----------------------------------------------------------------------------
(* HitBatch._parse_csv and HitBatch.create_hits_from_csv *)

\* Data rows read from one handle, and cells of one row.
MaxRows == 2
MaxCells == 2

Cells == {"", "1"}
HeaderNames == {"a", "b"}
RowsOver(S) == UNION {[1..n -> S] : n \in 0..MaxCells}
CsvStreams ==
    {<<>>} \cup
    {<<h>> \o rows : h \in RowsOver(HeaderNames),
                     rows \in UNION {[1..n -> RowsOver(Cells)] : n \in 0..MaxRows}}

Min(a, b) == IF a < b THEN a ELSE b

\* As DictZip, with the first pair of a repeated key kept (dict.setdefault).
DictZipFirstWins(header, row) ==
    LET n == Min(Len(header), Len(row))
    IN  [k \in {header[i] : i \in 1..n} |->
            row[CHOOSE i \in 1..n : header[i] = k /\ \A j \in 1..n : header[j] = k => i <= j]]

\* dict(zip(header, row)): zip stops at the shorter of the two, and in a dict
\* built from pairs a later pair with the same key replaces the earlier one.
DictZip(header, row) ==
    LET n == Min(Len(header), Len(row))
    IN  [k \in {header[i] : i \in 1..n} |->
            row[CHOOSE i \in 1..n : header[i] = k /\ \A j \in 1..n : header[j] = k => j <= i]]

\* "if not row: continue": a row is skipped when it is the empty list.
RowSkipped(row) == row = <<>>

\* The indices in the stream of the rows the loop creates a Hit from: the
\* header (index 1) is taken by rows.next() and is not among them.
RECURSIVE KeptRows(_, _)
KeptRows(stream, i) ==
    IF i > Len(stream) THEN <<>>
    ELSE IF RowSkipped(stream[i]) THEN KeptRows(stream, i + 1)
         ELSE <<i>> \o KeptRows(stream, i + 1)

CreateHitsFromCsv ==
    /\ import_result = "none"
    /\ IF csv_fh = <<>>
       THEN \* rows.next() on an exhausted reader
            /\ import_result' = "StopIteration"
            /\ UNCHANGED <<created, source_rows>>
       ELSE LET header == Head(csv_fh)
                kept   == KeptRows(csv_fh, 2)
            IN  /\ created' = [j \in 1..Len(kept) |-> DictZip(header, csv_fh[kept[j]])]
                /\ source_rows' = kept
                /\ import_result' = "done"
    /\ UNCHANGED <<csv_fh, renderVars, hitVars, templateVars>>

-----------------------------------------------------------------------------
(* Hit rows, Hit.save and Hit.get_output_csv_fieldnames *)

\* Hits in the table.
MaxHits == 3

\* The HitBatch rows of the one HitTemplate, in the order hitbatch_set.all()
\* returns them.  A batch exists whether or not it has Hits; the template
\* always has batches, so "if batches:" of HitTemplate.to_csv is taken.
Batches == <<1, 2>>

CsrfKey == "csrfmiddlewaretoken"

\* The names used as dict keys, in the order Python compares the strings.
KeyOrder == <<"csrfmiddlewaretoken", "x", "y", "z">>
KeyRank(k) == CHOOSE i \in DOMAIN KeyOrder : KeyOrder[i] = k

\* What a form submission may post, and what a CSV row gives a Hit.
AnswerValue(k) == IF k = CsrfKey THEN "abc" ELSE IF k = "y" THEN "ok" ELSE "1"
PostedAnswerMaps == {[k \in K |-> AnswerValue(k)] : K \in SUBSET {CsrfKey, "y", "z"}}
InputFieldMaps == {[k \in {"x"} |-> "1"]}

\* Hit(hit_batch=..., input_csv_fields=...): completed defaults to False and
\* answers to the empty value.
NewHit(batch, fields) ==
    [hit_batch |-> batch, completed |-> FALSE, input_csv_fields |-> fields, answers |-> <<>>]

\* Hit.save without the deletion.
HitSaveKeepsToken(hit) == hit

\* Hit.save: the row written is the instance with csrfmiddlewaretoken deleted
\* from answers.
HitSave(hit) ==
    [hit EXCEPT !.answers = [k \in DOMAIN hit.answers \ {CsrfKey} |-> hit.answers[k]]]

\* u'Input.' + k and u'Answer.' + k: a column name is a pair (prefix, k).
\* "Answer." sorts before "Input.", and within a prefix the names sort as k does.
ColumnLess(c, d) ==
    \/ c[1] = "Answer" /\ d[1] = "Input"
    \/ c[1] = d[1] /\ KeyRank(c[2]) < KeyRank(d[2])

RECURSIVE SortedTuple(_)
SortedTuple(S) ==
    IF S = {} THEN <<>>
    ELSE LET m == CHOOSE c \in S : \A d \in S \ {c} : ColumnLess(c, d)
         IN  <<m>> \o SortedTuple(S \ {m})

Columns(hit) ==
    {<<"Input", k>> : k \in DOMAIN hit.input_csv_fields} \cup
    {<<"Answer", k>> : k \in DOMAIN hit.answers}

get_output_csv_fieldnames(hit) == SortedTuple(Columns(hit))

-----------------------------------------------------------------------------
(* HitBatch.finished_hits, _results_data, to_csv and HitTemplate.to_csv *)

RECURSIVE Descending(_)
Descending(S) ==
    IF S = {} THEN <<>>
    ELSE LET m == CHOOSE i \in S : \A j \in S : j <= i
         IN  <<m>> \o Descending(S \ {m})

\* hit_set.filter(completed=True).order_by('-id'), as the ids.
finished_hits(batch) ==
    Descending({i \in DOMAIN hit_table :
                    hit_table[i].hit_batch = batch /\ hit_table[i].completed})

\* The row dict _results_data builds for a Hit.
RowDict(hit) ==
    [c \in Columns(hit) |->
        IF c[1] = "Input" THEN hit.input_csv_fields[c[2]] ELSE hit.answers[c[2]]]

\* _results_data(hits) for a non-empty hits: the field names of hits[0] and
\* one row per Hit, in the order of hits.
results_data(ids) ==
    [fieldnames |-> get_output_csv_fieldnames(hit_table[ids[1]]),
     rows       |-> [j \in DOMAIN ids |-> RowDict(hit_table[ids[j]])]]

Range(f) == {f[i] : i \in DOMAIN f}

HeaderLine(fieldnames) == [kind |-> "header", cells |-> fieldnames, id |-> 0]

\* DictWriter.writerow: a key outside fieldnames raises ValueError
\* (extrasaction='raise'); a fieldname the row lacks is written as restval ''.
RowRejected(fieldnames, row) == DOMAIN row \ Range(fieldnames) # {}
RowLine(fieldnames, row, id) ==
    [kind  |-> "row",
     cells |-> [i \in DOMAIN fieldnames |->
                   IF fieldnames[i] \in DOMAIN row THEN row[fieldnames[i]] ELSE ""],
     id    |-> id]

\* "for row in rows: writer.writerow(row)" from row j on; out is what the
\* handle holds so far.  The loop ends at the first row that raises.
RECURSIVE WriteRows(_, _, _, _, _)
WriteRows(fieldnames, rows, ids, j, out) ==
    IF j > Len(rows) THEN [outcome |-> "ok", lines |-> out]
    ELSE IF RowRejected(fieldnames, rows[j])
         THEN [outcome |-> "ValueError", lines |-> out]
         ELSE WriteRows(fieldnames, rows, ids, j + 1,
                        Append(out, RowLine(fieldnames, rows[j], ids[j])))

\* HitBatch.to_csv: hits[0] of an empty queryset raises IndexError before the
\* writer exists.
BatchExport(batch) ==
    LET ids == finished_hits(batch)
    IN  IF ids = <<>> THEN [outcome |-> "IndexError", lines |-> <<>>]
        ELSE LET data == results_data(ids)
             IN  WriteRows(data.fieldnames, data.rows, ids, 1,
                           <<HeaderLine(data.fieldnames)>>)

\* "for batch in batches[1:]" of HitTemplate.to_csv from batch b on.
RECURSIVE WriteLaterBatches(_, _, _)
WriteLaterBatches(fieldnames, b, acc) ==
    IF acc.outcome # "ok" \/ b > Len(Batches) THEN acc
    ELSE LET ids == finished_hits(Batches[b])
         IN  IF ids = <<>> THEN [outcome |-> "IndexError", lines |-> acc.lines]
             ELSE WriteLaterBatches(fieldnames, b + 1,
                     WriteRows(fieldnames, results_data(ids).rows, ids, 1, acc.lines))

\* HitTemplate.to_csv with at least one batch.
TemplateExport ==
    LET first == BatchExport(Batches[1])
    IN  IF first.outcome # "ok" THEN first
        ELSE WriteLaterBatches(first.lines[1].cells, 2, first)

NoExport == [outcome |-> "none"]

\* create_hits_from_csv, one row: a Hit is built and saved.
CreateHit ==
    /\ Len(hit_table) < MaxHits
    /\ \E b \in Range(Batches), fields \in InputFieldMaps :
          hit_table' = Append(hit_table, HitSave(NewHit(b, fields)))
    /\ export' = NoExport
    /\ UNCHANGED <<last_post, renderVars, importVars, templateVars>>

\* A submission: completed and answers of Hit id are assigned and the Hit is
\* saved.  The class has no other way to store answers, and neither the
\* fields nor Hit.save test the completed flag, so the step has no guard.
\* A handle written before the table changed is dropped.
Submit ==
    /\ \E id \in DOMAIN hit_table, posted \in PostedAnswerMaps :
          /\ hit_table' = [hit_table EXCEPT ![id] =
                              HitSave([@ EXCEPT !.completed = TRUE, !.answers = posted])]
          /\ last_post' = [id |-> id, answers |-> posted]
    /\ export' = NoExport
    /\ UNCHANGED <<renderVars, importVars, templateVars>>

BatchToCsv ==
    /\ export = NoExport
    /\ \E b \in Range(Batches) :
          export' = [call |-> "batch", batch |-> b] @@ BatchExport(b)
    /\ UNCHANGED <<hit_table, last_post, renderVars, importVars, templateVars>>

TemplateToCsv ==
    /\ export = NoExport
    /\ export' = [call |-> "template", batch |-> 0] @@ TemplateExport
    /\ UNCHANGED <<hit_table, last_post, renderVars, importVars, templateVars>>

-----------------------------------------------------------------------------
(* HitTemplate.save *)

\* Pieces a form text is assembled from.
MaxFormPieces == 2

\* \w for the characters of the model.
WordChars == {"a", "b", "_", "1"}

\* The length of the longest run of word characters of text that starts at i.
RECURSIVE WordRun(_, _)
WordRun(text, i) ==
    IF i <= Len(text) /\ text[i] \in WordChars THEN 1 + WordRun(text, i + 1) ELSE 0

\* re.findall(r'\${(\w+)}', text) from position i on: the groups of the
\* non-overlapping matches, left to right.  \w+ is greedy and '}' is no word
\* character, so a match at i takes the whole run and needs '}' right after it.
RECURSIVE FindAll(_, _)
FindAll(text, i) ==
    IF i > Len(text) THEN <<>>
    ELSE LET n == WordRun(text, i + 2)
         IN  IF /\ text[i] = "$"
                /\ i + 1 <= Len(text) /\ text[i + 1] = "{"
                /\ n >= 1
                /\ i + 2 + n <= Len(text) /\ text[i + 2 + n] = "}"
             THEN <<SubSeq(text, i + 2, i + 1 + n)>> \o FindAll(text, i + 3 + n)
             ELSE FindAll(text, i + 1)

\* As ExtractFieldnames, with re.search in place of re.findall: the first match only.
ExtractFirstFieldname(text) ==
    LET found == FindAll(text, 1)
    IN  [fn \in {found[i] : i \in DOMAIN found \cap {1}} |-> TRUE]

\* set(re.findall(...)) and dict((fn, True) for fn in unique_fieldnames)
ExtractFieldnames(text) ==
    LET found == FindAll(text, 1)
    IN  [fn \in {found[i] : i \in DOMAIN found} |-> TRUE]

FormPieces ==
    { <<"$", "{", "a", "}">>, <<"$", "{", "b", "_", "1", "}">>, <<"$", "{", "a">>,
      <<"}">>, <<"$", "{">>, <<" ">> }
FormTexts == {Concat(ps) : ps \in UNION {[1..n -> FormPieces] : n \in 0..MaxFormPieces}}
HandSetFieldnames == { <<>>, [fn \in {<<"z">>} |-> TRUE] }

\* template.form = text
SetForm ==
    /\ \E text \in FormTexts : tform' = text
    /\ UNCHANGED <<tfieldnames, tsaved, renderVars, importVars, hitVars>>

\* template.fieldnames = value, set by hand
SetFieldnames ==
    /\ \E value \in HandSetFieldnames : tfieldnames' = value
    /\ UNCHANGED <<tform, tsaved, renderVars, importVars, hitVars>>

\* HitTemplate.save: fieldnames is computed from form, then the row is written.
TemplateSave ==
    /\ tfieldnames' = ExtractFieldnames(tform)
    /\ tsaved' = [saved |-> TRUE, form |-> tform, fieldnames |-> tfieldnames']
    /\ UNCHANGED <<tform, renderVars, importVars, hitVars>>

-----------------------------------------------------------------------------
(* States of the parts a specification leaves alone *)

NoRow == [saved |-> FALSE]

RenderIdle   == form = <<>> /\ input_csv_fields = <<>> /\ rendered = <<>>
ImportIdle   == csv_fh = <<>> /\ created = <<>> /\ import_result = "none" /\ source_rows = <<>>
HitsIdle     == hit_table = <<>> /\ last_post = [id |-> 0] /\ export = NoExport
TemplateIdle == tform = <<>> /\ tfieldnames = <<>> /\ tsaved = NoRow

InitRender ==
    /\ form \in Templates
    /\ input_csv_fields \in FieldMaps
    /\ rendered = <<>>
    /\ ImportIdle /\ HitsIdle /\ TemplateIdle

NextRender == GenerateForm

SpecRender == InitRender /\ [][NextRender]_vars

InitImport ==
    /\ csv_fh \in CsvStreams
    /\ created = <<>> /\ import_result = "none" /\ source_rows = <<>>
    /\ RenderIdle /\ HitsIdle /\ TemplateIdle

NextImport == CreateHitsFromCsv

SpecImport == InitImport /\ [][NextImport]_vars

InitHits ==
    /\ hit_table = <<>> /\ last_post = [id |-> 0] /\ export = NoExport
    /\ RenderIdle /\ ImportIdle /\ TemplateIdle

NextHits == CreateHit \/ Submit \/ BatchToCsv \/ TemplateToCsv

SpecHits == InitHits /\ [][NextHits]_vars

InitTemplate ==
    /\ tform = <<>> /\ tfieldnames = <<>> /\ tsaved = NoRow
    /\ RenderIdle /\ ImportIdle /\ HitsIdle

NextTemplate == SetForm \/ SetFieldnames \/ TemplateSave

SpecTemplate == InitTemplate /\ [][NextTemplate]_vars

-----------------------------------------------------------------------------
(* Rendering: the reference the spec describes, and the claims C1 and C10 *)

\* One left-to-right pass over the original template: at each position where
\* the token of a key starts, the key's value is put out and never scanned.
RECURSIVE SinglePass(_, _)
SinglePass(template, fields) ==
    IF template = <<>> THEN <<>>
    ELSE IF \E k \in DOMAIN fields : StartsWith(template, Token(k))
         THEN LET k == CHOOSE f \in DOMAIN fields : StartsWith(template, Token(f))
              IN  fields[k] \o SinglePass(SubSeq(template, Len(Token(k)) + 1, Len(template)), fields)
         ELSE <<Head(template)>> \o SinglePass(Tail(template), fields)

\* The text holds "${" and a later "}".
HasTokenText(v) ==
    \E i, j \in DOMAIN v : i + 1 < j /\ v[i] = "$" /\ v[i + 1] = "{" /\ v[j] = "}"

\* C1: generate_form never double-substitutes: whatever the order in which the
\* keys are iterated, the result is the wrapped single pass over the original
\* template, so a token that enters only through a value stays literal.
C1_NoDoubleSubstitution ==
    rendered # <<>> => rendered = Wrap(SinglePass(form, input_csv_fields))

\* C10: when no value holds ${...} text, generate_form replaces every occurrence
\* of every key's token by the value, keeps tokens of unknown names literal,
\* ignores unused fields and wraps the result in the two divs.
C10_LenientRendering ==
    (rendered # <<>> /\ \A k \in DOMAIN input_csv_fields : ~HasTokenText(input_csv_fields[k]))
        => rendered = Wrap(SinglePass(form, input_csv_fields))

-----------------------------------------------------------------------------
(* Import: the claims C6 and C9 *)

DataRowIndices == 2..Len(csv_fh)
HasNonEmptyCell(row) == \E c \in DOMAIN row : row[c] # ""

\* C6: every data row that is entirely empty (no cells, or only empty cells) is
\* skipped, so the number of Hits created is the number of data rows with at
\* least one non-empty cell.
C6_BlankRowsSkipped ==
    import_result = "done" =>
        Len(created) = Cardinality({i \in DataRowIndices : HasNonEmptyCell(csv_fh[i])})

\* Every created Hit comes from a data row, never from the header; the rows are
\* taken in order, each at most once; a zero-length row gives no Hit and a row
\* with a non-empty cell gives one, whatever its number of cells and whatever
\* the rows before it were.
RowsImportedInOrder ==
    /\ Len(source_rows) = Len(created)
    /\ \A j \in DOMAIN source_rows : source_rows[j] \in DataRowIndices
    /\ \A j, k \in DOMAIN source_rows : j < k => source_rows[j] < source_rows[k]
    /\ \A i \in DataRowIndices :
          /\ HasNonEmptyCell(csv_fh[i]) => \E j \in DOMAIN source_rows : source_rows[j] = i
          /\ csv_fh[i] = <<>> => \A j \in DOMAIN source_rows : source_rows[j] # i

\* C9 as stated: the header is consumed and never imported, and each Hit maps
\* header[i] to row[i] for exactly the indices i present in both.
C9_PositionalZip ==
    import_result = "done" =>
        /\ RowsImportedInOrder
        /\ \A j \in DOMAIN created :
              LET header == csv_fh[1]
                  row    == csv_fh[source_rows[j]]
                  n      == Min(Len(header), Len(row))
              IN  /\ DOMAIN created[j] = {header[i] : i \in 1..n}
                  /\ \A i \in 1..n : created[j][header[i]] = row[i]

\* C9 amended: as C9, except that when a header name occurs at several of the
\* indices present in both, the Hit maps it to the cell at the last of them.
C9_PositionalZipLastWins ==
    import_result = "done" =>
        /\ RowsImportedInOrder
        /\ \A j \in DOMAIN created :
              LET header == csv_fh[1]
                  row    == csv_fh[source_rows[j]]
                  n      == Min(Len(header), Len(row))
              IN  /\ DOMAIN created[j] = {header[i] : i \in 1..n}
                  /\ \A i \in 1..n :
                        (\A k \in (i + 1)..n : header[k] # header[i])
                            => created[j][header[i]] = row[i]

\* A short row and a long row, both imported, the long one after the short one,
\* under a header that repeats no name.
C9_Witness ==
    /\ import_result = "done"
    /\ Len(created) = 2
    /\ csv_fh[1] = <<"a", "b">>
    /\ Len(csv_fh[2]) < Len(csv_fh[1])
    /\ DOMAIN created[1] = {"a"}
    /\ created[2] = [k \in {"a", "b"} |-> IF k = "a" THEN "" ELSE "1"]

-----------------------------------------------------------------------------
(* Hits and export: the claims C2, C3, C4, C5 and C8 *)

Exported == export # NoExport

\* The completed Hits a call exports, and the ones its header is inferred from.
CompletedOf(b) ==
    {i \in DOMAIN hit_table : hit_table[i].hit_batch = b /\ hit_table[i].completed}
ExportSource ==
    IF export.call = "batch" THEN CompletedOf(export.batch)
    ELSE UNION {CompletedOf(b) : b \in Range(Batches)}
SchemaSource ==
    IF export.call = "batch" THEN CompletedOf(export.batch) ELSE CompletedOf(Batches[1])

\* The output schema of a Hit, stated from the key sets.
IsSchemaOf(t, hit) ==
    /\ Range(t) = {<<"Input", k>> : k \in DOMAIN hit.input_csv_fields}
                      \cup {<<"Answer", k>> : k \in DOMAIN hit.answers}
    /\ \A i, j \in DOMAIN t : i < j => ColumnLess(t[i], t[j])

RowLinesOf(id) == {n \in DOMAIN export.lines :
                      export.lines[n].kind = "row" /\ export.lines[n].id = id}
HeaderLines == {n \in DOMAIN export.lines : export.lines[n].kind = "header"}
\* The header line a line stands under.
HeaderAbove(n) == CHOOSE h \in HeaderLines : h < n /\ \A g \in HeaderLines : g < n => g <= h

\* C2: when the exported completed Hits do not all have the same output schema,
\* the export holds one table per distinct schema, each headed by that schema,
\* and each Hit's row stands under the header that is its own schema.
C2_SchemaGrouping ==
    (Exported /\ Cardinality({Columns(hit_table[i]) : i \in ExportSource}) > 1) =>
        /\ Cardinality(HeaderLines) = Cardinality({Columns(hit_table[i]) : i \in ExportSource})
        /\ \A i \in ExportSource :
              /\ Cardinality(RowLinesOf(i)) = 1
              /\ \A n \in RowLinesOf(i) :
                    /\ \E h \in HeaderLines : h < n
                    /\ IsSchemaOf(export.lines[HeaderAbove(n)].cells, hit_table[i])

\* C3: completed only moves from false to true, answers is empty while
\* completed is false, and the stored answers of a completed Hit never change.
C3_ExactlyOnceCompletion ==
    [][ /\ \A i \in DOMAIN hit_table :
              hit_table[i].completed =>
                  /\ hit_table'[i].completed
                  /\ hit_table'[i].answers = hit_table[i].answers
        /\ \A i \in DOMAIN hit_table' :
              ~hit_table'[i].completed => hit_table'[i].answers = <<>> ]_vars

\* C4: no persisted Hit has csrfmiddlewaretoken among its answers, no output
\* schema, export header or export row holds Answer.csrfmiddlewaretoken, and
\* the Hit last submitted holds every other posted key with its posted value.
C4_CsrfStripped ==
    /\ \A i \in DOMAIN hit_table :
          /\ CsrfKey \notin DOMAIN hit_table[i].answers
          /\ <<"Answer", CsrfKey>> \notin Range(get_output_csv_fieldnames(hit_table[i]))
          /\ <<"Answer", CsrfKey>> \notin DOMAIN RowDict(hit_table[i])
    /\ Exported => \A n \in DOMAIN export.lines :
          export.lines[n].kind = "header"
              => <<"Answer", CsrfKey>> \notin Range(export.lines[n].cells)
    /\ last_post.id # 0 =>
          LET stored == hit_table[last_post.id].answers
          IN  /\ DOMAIN stored = DOMAIN last_post.answers \ {CsrfKey}
              /\ \A k \in DOMAIN stored : stored[k] = last_post.answers[k]

\* The answers {y: "ok", csrfmiddlewaretoken: "abc"} were posted and the Hit
\* has been exported with the one answer column Answer.y.
C4_Witness ==
    /\ last_post.id # 0
    /\ last_post.answers = [k \in {"y", CsrfKey} |-> AnswerValue(k)]
    /\ hit_table[last_post.id].answers = [k \in {"y"} |-> "ok"]
    /\ Exported /\ export.outcome = "ok"
    /\ Len(export.lines) = 2
    /\ export.lines[1].cells = <<<<"Answer", "y">>, <<"Input", "x">>>>
    /\ export.lines[2].cells = <<"ok", "1">>

\* C5: an export whose schema source holds no completed Hit ends in a reported
\* schema-inference error, or in an empty header with no rows, and writes
\* nothing (at most the empty header) to the handle.
C5_EmptyExportReported ==
    (Exported /\ SchemaSource = {}) =>
        \/ export.outcome = "SchemaInferenceError" /\ export.lines = <<>>
        \/ export.outcome = "ok" /\ export.lines \in {<<>>, <<HeaderLine(<<>>)>>}

\* The ids of the rows written, in the order written.
RECURSIVE RowIds(_)
RowIds(lines) ==
    IF lines = <<>> THEN <<>>
    ELSE (IF Head(lines).kind = "row" THEN <<Head(lines).id>> ELSE <<>>) \o RowIds(Tail(lines))

\* s lists exactly the completed Hits of batch b, the most recently created first.
IsReverseCreationOrder(s, b) ==
    /\ Range(s) = CompletedOf(b)
    /\ \A i, j \in DOMAIN s : i < j => s[i] > s[j]

\* C8: a batch export lists the batch's completed Hits, most recently created
\* first, and no other Hit; a template export lists, batch after batch in the
\* batches' order, each batch's completed Hits in that order, each once.
C8_ExportRowOrder ==
    Exported =>
        LET ids == RowIds(export.lines)
        IN  IF export.call = "batch"
            THEN IsReverseCreationOrder(ids, export.batch)
            ELSE \E cut \in 0..Len(ids) :
                    /\ IsReverseCreationOrder(SubSeq(ids, 1, cut), Batches[1])
                    /\ IsReverseCreationOrder(SubSeq(ids, cut + 1, Len(ids)), Batches[2])

-----------------------------------------------------------------------------
(* Template: the claim C7 *)

\* The identifiers of the ${identifier} tokens of a text: every stretch of one
\* or more word characters that stands between "${" and "}".
TokenIdentifiers(text) ==
    {SubSeq(text, p[1] + 2, p[2] - 1) :
        p \in {q \in (DOMAIN text) \X (DOMAIN text) :
                  /\ q[1] + 2 < q[2]
                  /\ text[q[1]] = "$" /\ text[q[1] + 1] = "{" /\ text[q[2]] = "}"
                  /\ \A k \in (q[1] + 2)..(q[2] - 1) : text[k] \in WordChars}}

\* C7: the fieldnames of the saved template are exactly the identifiers of the
\* tokens of its saved form text, whatever form texts were saved before and
\* whatever fieldnames had been set by hand.
C7_FieldnamesFollowForm ==
    tsaved.saved =>
        /\ DOMAIN tsaved.fieldnames = TokenIdentifiers(tsaved.form)
        /\ \A fn \in DOMAIN tsaved.fieldnames : tsaved.fieldnames[fn] = TRUE

\* A form text that repeats a token has been saved.
C7_Witness ==
    /\ tsaved.saved
    /\ tsaved.form = <<"$", "{", "a", "}", "$", "{", "a", "}">>
    /\ DOMAIN tsaved.fieldnames = {<<"a">>}

=============================================================================
